---- MODULE Spec2Model ----
(***************************************************************************)
(* robot_self_filter::SelfMask (self_mask.cpp): per-link collision bodies, *)
(* frame-following pose updates and the containment / shadow / outside     *)
(* classification of sensor points.                                        *)
(*                                                                         *)
(* Geometry is modelled on one axis with integer coordinates.  Every link  *)
(* that yields a body has BOX collision geometry, so a body is the closed  *)
(* interval [pose - half, pose + half]; a transform is a translation and   *)
(* the identity transform is 0.  A unit vector on the axis is -1 or 1.     *)
(***************************************************************************)
EXTENDS Integers, Sequences, FiniteSets, TLC

\* bodies_, bspheres_, bspheresRadius2_, sensor_pos_ and min_sensor_dist_ are
\* the members of SelfMask; configured is what the last configure call
\* returned; generation counts the configure calls made on the object (the
\* constructor's is the first); call is the call in progress (see NoCall).
VARIABLES bodies_, bspheres_, bspheresRadius2_, sensor_pos_, min_sensor_dist_,
          configured, generation, call

vars == <<bodies_, bspheres_, bspheresRadius2_, sensor_pos_, min_sensor_dist_,
          configured, generation, call>>

\* ---------------------------------------------------------------- bounds
\* longest list of LinkInfo handed to configure
MaxLinks == 2
\* points of a cloud and sensor positions lie in -MaxCoord..MaxCoord
MaxCoord == 2
\* largest number of points in one cloud
MaxPoints == 1
\* largest min_sensor_dist handed in
MaxStandoff == 2
\* configure calls made on one object, the constructor's included
MaxConfigures == 2

Coords == (0 - MaxCoord)..MaxCoord
Standoffs == {0, MaxStandoff}
Clouds == UNION {[1..n -> Coords] : n \in 0..MaxPoints}

Abs(x) == IF x < 0 THEN 0 - x ELSE x
Sign(x) == IF x < 0 THEN 0 - 1 ELSE IF x > 0 THEN 1 ELSE 0

\* ---------------------------------------------------- the robot description
\* The links of the parsed URDF model (urdfModel->getLink(name)): "collision"
\* says whether link->collision && link->collision->geometry, "type" is
\* geom->type, "half" the half extent of the box on the axis, "filename" the
\* mesh file name, "origin" the translation of link->collision->origin.
UrdfLinks ==
  [ base    |-> [collision |-> TRUE,  type |-> "BOX",  half |-> 1, filename |-> "", origin |-> 0],
    arm     |-> [collision |-> TRUE,  type |-> "BOX",  half |-> 1, filename |-> "", origin |-> 1],
    cam     |-> [collision |-> FALSE, type |-> "BOX",  half |-> 1, filename |-> "", origin |-> 0],
    gripper |-> [collision |-> TRUE,  type |-> "MESH", half |-> 1, filename |-> "", origin |-> 0] ]

\* the LinkInfo entries (name, scale, padding) a caller passes to configure;
\* "ghost" is not a link of the model
LinkInfos ==
  { [name |-> "base",    scale |-> 1, padding |-> 0],
    [name |-> "base",    scale |-> 1, padding |-> 1],
    [name |-> "arm",     scale |-> 1, padding |-> 0],
    [name |-> "cam",     scale |-> 1, padding |-> 0],
    [name |-> "gripper", scale |-> 1, padding |-> 0],
    [name |-> "ghost",   scale |-> 1, padding |-> 0] }

LinkLists == UNION {[1..n -> LinkInfos] : n \in 0..MaxLinks}

\* nh_.getParam("robot_description", content) and urdfModel->initString(content)
ParamStates == {"ok", "absent", "unparsable"}

\* urdfModel->getLink(name).get(): NULL for a name the model does not have
\* (a pointer is modelled as a sequence: <<>> is NULL, <<x>> points to x)
GetLink(name) ==
  IF name \in DOMAIN UrdfLinks THEN <<UrdfLinks[name]>> ELSE <<>>

\* constructShape: a shape for SPHERE, BOX and CYLINDER, a mesh only when its
\* file name is not empty, NULL for anything else
constructShape(geom) ==
  CASE geom.type \in {"SPHERE", "BOX", "CYLINDER"} -> <<[type |-> geom.type, half |-> geom.half]>>
    [] geom.type = "MESH" ->
         IF geom.filename # "" THEN <<[type |-> "MESH", half |-> geom.half]>> ELSE <<>>
    [] OTHER -> <<>>

\* bodies::createBodyFromShape: a body at the identity pose, scale 1, padding 0
createBodyFromShape(shape) ==
  IF shape.type \in {"SPHERE", "BOX", "CYLINDER", "MESH"}
    THEN <<[half |-> shape.half, pose |-> 0]>>
    ELSE <<>>

\* Body::setScale and Body::setPadding of a box: half extent scale*half + padding
ScaledHalf(half, scale, padding) == scale * half + padding

\* Body::computeVolume of the scaled body (its extent on the axis)
computeVolume(body) == 2 * body.half

\* ------------------------------------------------------ the transform tree
Frames == {"odom", "map"}
SensorFrames == {"", "laser", "kinect"}

\* tf_: for a target frame and a source frame, whether waitForTransform
\* succeeds within 100 ms ("wait"), whether lookupTransform returns ("found")
\* and the translation it returns ("x")
TfTree ==
  [ odom |-> [ base    |-> [wait |-> TRUE,  found |-> TRUE,  x |-> 3],
               arm     |-> [wait |-> TRUE,  found |-> TRUE,  x |-> 0 - 1],
               laser   |-> [wait |-> TRUE,  found |-> TRUE,  x |-> 1],
               kinect  |-> [wait |-> FALSE, found |-> TRUE,  x |-> 0 - 2] ],
    map  |-> [ base    |-> [wait |-> FALSE, found |-> TRUE,  x |-> 0 - 3],
               arm     |-> [wait |-> FALSE, found |-> FALSE, x |-> 0],
               laser   |-> [wait |-> FALSE, found |-> FALSE, x |-> 0],
               kinect  |-> [wait |-> TRUE,  found |-> TRUE,  x |-> 2] ] ]

\* tf_.waitForTransform(frame_id, source, stamp, ...)
waitForTransform(frame_id, source) ==
  IF source \in DOMAIN TfTree[frame_id] THEN TfTree[frame_id][source].wait ELSE FALSE

\* tf_.lookupTransform(frame_id, source, stamp, transf): <<transform>>, or
\* <<>> when tf::TransformException is thrown
lookupTransform(frame_id, source) ==
  IF source \in DOMAIN TfTree[frame_id] /\ TfTree[frame_id][source].found
    THEN <<TfTree[frame_id][source].x>>
    ELSE <<>>

\* ------------------------------------------------- bodies (geometric_shapes)
INSIDE == "INSIDE"
OUTSIDE == "OUTSIDE"
SHADOW == "SHADOW"

\* a vector that may be NaN (the result of a division by a zero length)
Vec(x) == [nan |-> FALSE, x |-> x]
NaN == [nan |-> TRUE, x |-> 0]

\* bodies::Box::containsPoint: the faces belong to the box
containsPoint(body, p) == Abs(p - body.pose) <= body.half

\* bodies::Box::computeBoundingSphere
computeBoundingSphere(body) == [center |-> body.pose, radius |-> body.half]

\* bodies::Box::intersectsRay(origin, dir, &intersections, 1): the slab test.
\* A hit is appended to the caller's vector; with count 1 the hit is the
\* point of the nearer slab parameter (a box face, also when the origin is
\* inside the box).  A zero direction gives no slab, and the point pushed is
\* -inf * 0 + origin, a NaN.
intersectsRay(body, origin, dir, intersections) ==
  LET lo == body.pose - body.half
      hi == body.pose + body.half
      miss == [hit |-> FALSE, intersections |-> intersections]
  IN  CASE dir > 0 ->
             IF hi < origin THEN miss
             ELSE [hit |-> TRUE, intersections |-> Append(intersections, Vec(lo))]
        [] dir < 0 ->
             IF lo > origin THEN miss
             ELSE [hit |-> TRUE, intersections |-> Append(intersections, Vec(hi))]
        [] OTHER ->
             IF (body.pose - origin) * (body.pose - origin) > body.half * body.half
               THEN miss
               ELSE [hit |-> TRUE, intersections |-> Append(intersections, NaN)]

\* A sphere that bounds several: center2 is twice its center and radius2
\* twice its radius (the merged center can fall between two integers).
Doubled(sphere) == [center2 |-> 2 * sphere.center, radius2 |-> 2 * sphere.radius]

\* one step of bodies::mergeBoundingSpheres: merge sphere s into bound m
MergeStep(m, s) ==
  LET d2 == Abs(2 * s.center - m.center2)
  IN  IF s.radius <= 0 THEN m
      ELSE IF d2 + m.radius2 <= 2 * s.radius THEN Doubled(s)
      ELSE IF d2 + 2 * s.radius > m.radius2
        THEN LET nr2 == (d2 + 2 * s.radius + m.radius2) \div 2
             IN  [center2 |-> Sign(m.center2 - 2 * s.center) * (nr2 - 2 * s.radius)
                                + 2 * s.center,
                  radius2 |-> nr2]
        ELSE m

RECURSIVE MergeFrom(_, _, _)
MergeFrom(spheres, i, m) ==
  IF i > Len(spheres) THEN m ELSE MergeFrom(spheres, i + 1, MergeStep(m, spheres[i]))

\* bodies::mergeBoundingSpheres(bspheres_, bound)
mergeBoundingSpheres(spheres) ==
  IF spheres = <<>> THEN [center2 |-> 0, radius2 |-> 0]
  ELSE MergeFrom(spheres, 2, Doubled(spheres[1]))

\* diff.squaredNorm() < radiusSquared, with diff = pt - bound.center
InBound(bound, pt) ==
  (2 * pt - bound.center2) * (2 * pt - bound.center2) < bound.radius2 * bound.radius2

\* ------------------------------------------------------------ the caller
\* Calls on the object are serialized: the caller is idle (op = "idle") or
\* holds what its call was given and what it handed back, until it returns:
\*   op, links, param, frame_id, sensor_frame, pts   the call and its arguments
\*   ret      configure's return value
\*   freed    the number of SeeLinks freeMemory found in bodies_
\*   min_sensor_dist   the min_sensor_dist argument
\*   mask     the labels written by a mask* call or returned by getMask*
\*   shadows  the calls of the callback: point index i, body index j, argument h
\*   rays     the calls of intersectsRay: point index i, body index j, direction
\*   frames   the names appended by getLinkNames
\*   log      the ROS_WARN / ROS_ERROR messages of configure and assumeFrame
NoCall ==
  [op |-> "idle", links |-> <<>>, param |-> "ok", ret |-> FALSE, frame_id |-> "",
   sensor_frame |-> "", pts |-> <<>>, callback |-> FALSE, mask |-> <<>>,
   shadows |-> <<>>, rays |-> <<>>, frames |-> <<>>, log |-> <<>>,
   freed |-> 0, min_sensor_dist |-> 0]

Idle == call.op = "idle"

\* the call returns and the caller is idle again; the object keeps its state
Return ==
  /\ ~Idle
  /\ call' = NoCall
  /\ UNCHANGED <<bodies_, bspheres_, bspheresRadius2_, sensor_pos_, min_sensor_dist_, configured, generation>>

\* ------------------------------------------------------------ configure
\* freeMemory with the SeeLinks left in bodies_
freeMemory_KeepBodies(bodies) == bodies

\* void SelfMask::freeMemory(): both bodies of every SeeLink are deleted and
\* bodies_ is cleared
freeMemory(bodies) == <<>>

\* the body of configure's loop for links[i]: the SeeLink pushed back (or
\* none), the name streamed into `missing` (or none) and the message logged;
\* gen is the configure call that runs the loop
BuildLink(info, gen) ==
  LET link == GetLink(info.name)
      skip(missing, log) == [sl |-> <<>>, missing |-> missing, log |-> log]
  IN  IF link = <<>> THEN skip(<<info.name>>, <<>>)
      ELSE IF ~link[1].collision
        THEN skip(<<>>, <<[level |-> "WARN", what |-> "no collision geometry", names |-> <<info.name>>]>>)
      ELSE LET shape == constructShape(link[1])
           IN  IF shape = <<>>
                 THEN skip(<<>>, <<[level |-> "ERROR", what |-> "no collision shape", names |-> <<info.name>>]>>)
               ELSE LET body == createBodyFromShape(shape[1])
                    IN  IF body = <<>>
                          THEN skip(<<>>, <<[level |-> "WARN", what |-> "no body", names |-> <<info.name>>]>>)
                        ELSE LET scaled == [body[1] EXCEPT
                                              !.half = ScaledHalf(@, info.scale, info.padding)]
                             IN [sl |-> <<[name |-> info.name, gen |-> gen,
                                           constTransf |-> link[1].origin,
                                           body |-> scaled,
                                           volume |-> computeVolume(scaled),
                                           unscaledBody |-> createBodyFromShape(shape[1])[1]]>>,
                                 missing |-> <<>>, log |-> <<>>]

\* BuildLoop with the batch abandoned at the first entry that yields no body
RECURSIVE BuildLoop_AbortOnFailure(_, _, _)
BuildLoop_AbortOnFailure(links, i, acc) ==
  IF i > Len(links) THEN acc
  ELSE LET b == BuildLink(links[i], acc.gen)
       IN  IF b.sl = <<>>
             THEN [acc EXCEPT !.missing = @ \o b.missing, !.log = @ \o b.log]
             ELSE BuildLoop_AbortOnFailure(links, i + 1,
                    [bodies |-> acc.bodies \o b.sl,
                     missing |-> acc.missing \o b.missing,
                     log |-> acc.log \o b.log,
                     gen |-> acc.gen])

\* configure's loop over links, from entry i on
RECURSIVE BuildLoop(_, _, _)
BuildLoop(links, i, acc) ==
  IF i > Len(links) THEN acc
  ELSE LET b == BuildLink(links[i], acc.gen)
       IN  BuildLoop(links, i + 1,
                     [bodies |-> acc.bodies \o b.sl,
                      missing |-> acc.missing \o b.missing,
                      log |-> acc.log \o b.log,
                      gen |-> acc.gen])

\* SortBodies: b1.volume > b2.volume
SortBodies(b1, b2) == b1.volume > b2.volume

\* Sorted with the sort left out: the bodies stay in the order of the list
Sorted_InputOrder(seq) == {seq}

\* std::sort(bodies_.begin(), bodies_.end(), SortBodies()): some permutation
\* in which no body is followed by one that SortBodies puts before it (the
\* order of bodies that compare equal is not specified)
Sorted(seq) ==
  IF seq = <<>> THEN {<<>>}
  ELSE { s \in { [i \in 1..Len(seq) |-> seq[f[i]]] : f \in Permutations(1..Len(seq)) } :
           \A i \in 1..(Len(s) - 1) : ~SortBodies(s[i + 1], s[i]) }

\* std::vector::resize(n): the first elements stay, new ones are value-initialized
Resize(seq, n, fresh) == [i \in 1..n |-> IF i <= Len(seq) THEN seq[i] ELSE fresh]

\* the messages logged after configure's loop
ConfigureWarnings(missing, bodies) ==
  (IF missing # <<>>
     THEN <<[level |-> "WARN", what |-> "links not in the model", names |-> missing]>>
     ELSE <<>>)
  \o (IF bodies = <<>>
        THEN <<[level |-> "WARN", what |-> "no links checked", names |-> <<>>]>>
        ELSE <<>>)

\* bool SelfMask::configure(const std::vector<LinkInfo> &links): the states
\* it can leave the object in, given the bodies and spheres it finds, with
\* its return value and its log; gen is the number of this configure call.
\* freeMemory runs first, the loop then pushes back onto what it left.
configure(links, param, bodies, gen, bspheres, bspheresRadius2) ==
  IF param # "ok"
    THEN { [bodies |-> freeMemory(bodies),
            bspheres |-> bspheres, bspheresRadius2 |-> bspheresRadius2,
            ret |-> FALSE,
            log |-> <<[level |-> "ERROR", what |-> "no robot model", names |-> <<>>]>>] }
    ELSE LET built == BuildLoop(links, 1, [bodies |-> freeMemory(bodies), missing |-> <<>>,
                                           log |-> <<>>, gen |-> gen])
         IN  { [bodies |-> sorted,
                bspheres |-> Resize(bspheres, Len(sorted), [center |-> 0, radius |-> 0]),
                bspheresRadius2 |-> Resize(bspheresRadius2, Len(sorted), 0),
                ret |-> TRUE,
                log |-> built.log \o ConfigureWarnings(built.missing, sorted)] :
               sorted \in Sorted(built.bodies) }

\* a call of configure on the constructed object
Configure(links, param) ==
  /\ Idle
  /\ generation < MaxConfigures
  /\ generation' = generation + 1
  /\ \E c \in configure(links, param, bodies_, generation + 1, bspheres_, bspheresRadius2_) :
       /\ bodies_' = c.bodies
       /\ bspheres_' = c.bspheres
       /\ bspheresRadius2_' = c.bspheresRadius2
       /\ sensor_pos_' = 0
       /\ UNCHANGED min_sensor_dist_
       /\ configured' = c.ret
       /\ call' = [NoCall EXCEPT !.op = "configure", !.links = links, !.param = param,
                     !.ret = c.ret, !.log = c.log, !.freed = Len(bodies_)]

\* void SelfMask::getLinkNames(std::vector<std::string> &frames) const
GetLinkNames ==
  /\ Idle
  /\ call' = [NoCall EXCEPT !.op = "getLinkNames",
                !.frames = [i \in 1..Len(bodies_) |-> bodies_[i].name]]
  /\ UNCHANGED <<bodies_, bspheres_, bspheresRadius2_, sensor_pos_, min_sensor_dist_, configured, generation>>

\* --------------------------------------------------------- assumeFrame
\* the transform assumeFrame uses for a link: the one looked up, or the
\* identity (transf.setIdentity()) when lookupTransform throws
LinkTransform(frame_id, name) ==
  LET t == lookupTransform(frame_id, name) IN IF t = <<>> THEN 0 ELSE t[1]

\* PlaceLink with a failed lookup skipping the link: its bodies keep their pose
PlaceLink_SkipOnFailure(sl, frame_id) ==
  IF lookupTransform(frame_id, sl.name) = <<>> THEN sl
  ELSE [sl EXCEPT !.body.pose = LinkTransform(frame_id, sl.name) + sl.constTransf,
                  !.unscaledBody.pose = LinkTransform(frame_id, sl.name) + sl.constTransf]

\* the body of assumeFrame's loop: both bodies of the link get the pose
\* transf * constTransf
PlaceLink(sl, frame_id) ==
  LET converted_tf == LinkTransform(frame_id, sl.name) + sl.constTransf
  IN  [sl EXCEPT !.body.pose = converted_tf, !.unscaledBody.pose = converted_tf]

\* the errors logged by assumeFrame's loop for one link
PlaceLinkLog(sl, frame_id) ==
  (IF ~waitForTransform(frame_id, sl.name)
     THEN <<[level |-> "ERROR", what |-> "wait timed out", names |-> <<sl.name>>]>>
     ELSE <<>>)
  \o (IF lookupTransform(frame_id, sl.name) = <<>>
        THEN <<[level |-> "ERROR", what |-> "lookup failed", names |-> <<sl.name>>]>>
        ELSE <<>>)

RECURSIVE Flatten(_)
Flatten(seqs) == IF seqs = <<>> THEN <<>> ELSE Head(seqs) \o Flatten(Tail(seqs))

\* void SelfMask::computeBoundingSpheres(): the spheres of the scaled bodies
computeBoundingSpheres(bodies) ==
  [i \in 1..Len(bodies) |-> computeBoundingSphere(bodies[i].body)]

\* bspheresRadius2_[i] = bspheres_[i].radius * bspheres_[i].radius
SquaredRadii(spheres) == [i \in 1..Len(spheres) |-> spheres[i].radius * spheres[i].radius]

\* void SelfMask::assumeFrame(frame_id, stamp): the bodies, spheres and log after it
assumeFrame(bodies, frame_id) ==
  LET placed == [i \in 1..Len(bodies) |-> PlaceLink(bodies[i], frame_id)]
  IN  [bodies |-> placed,
       bspheres |-> computeBoundingSpheres(placed),
       log |-> Flatten([i \in 1..Len(bodies) |-> PlaceLinkLog(bodies[i], frame_id)])]

\* SensorOrigin with the lookup left out after a wait that timed out
SensorOrigin_NoLookupAfterTimeout(frame_id, sensor_frame) ==
  IF ~waitForTransform(frame_id, sensor_frame) THEN 0
  ELSE LET t == lookupTransform(frame_id, sensor_frame) IN IF t = <<>> THEN 0 ELSE t[1]

\* assumeFrame(frame_id, stamp, sensor_frame, min_sensor_dist): the sensor
\* position it leaves in sensor_pos_.  A wait that times out sets sensor_pos_
\* to the origin and execution goes on to the lookup, which assigns
\* sensor_pos_ again: the looked-up origin, or the origin when it throws.
SensorOrigin(frame_id, sensor_frame) ==
  LET afterWait == IF ~waitForTransform(frame_id, sensor_frame) THEN 0 ELSE sensor_pos_
      t == lookupTransform(frame_id, sensor_frame)
      \* try and catch both assign sensor_pos_, whatever it held (pos)
      AfterLookup(pos) == IF t = <<>> THEN 0 ELSE t[1]
  IN  AfterLookup(afterWait)

SensorLog(frame_id, sensor_frame) ==
  (IF ~waitForTransform(frame_id, sensor_frame)
     THEN <<[level |-> "ERROR", what |-> "wait timed out", names |-> <<sensor_frame>>]>>
     ELSE <<>>)
  \o (IF lookupTransform(frame_id, sensor_frame) = <<>>
        THEN <<[level |-> "ERROR", what |-> "lookup failed", names |-> <<sensor_frame>>]>>
        ELSE <<>>)

\* the public assumeFrame(frame_id, stamp)
AssumeFrame(frame_id) ==
  LET af == assumeFrame(bodies_, frame_id)
  IN  /\ Idle
      /\ bodies_' = af.bodies
      /\ bspheres_' = af.bspheres
      /\ bspheresRadius2_' = SquaredRadii(af.bspheres)
      /\ UNCHANGED <<sensor_pos_, min_sensor_dist_, configured, generation>>
      /\ call' = [NoCall EXCEPT !.op = "assumeFrame", !.frame_id = frame_id, !.log = af.log]

\* the public assumeFrame(frame_id, stamp, sensor_pos, min_sensor_dist)
AssumeFrameSensorPos(frame_id, sensor_pos, min_sensor_dist) ==
  LET af == assumeFrame(bodies_, frame_id)
  IN  /\ Idle
      /\ bodies_' = af.bodies
      /\ bspheres_' = af.bspheres
      /\ bspheresRadius2_' = SquaredRadii(af.bspheres)
      /\ sensor_pos_' = sensor_pos
      /\ min_sensor_dist_' = min_sensor_dist
      /\ UNCHANGED <<configured, generation>>
      /\ call' = [NoCall EXCEPT !.op = "assumeFrameSensorPos", !.frame_id = frame_id,
                    !.min_sensor_dist = min_sensor_dist, !.log = af.log]

\* the public assumeFrame(frame_id, stamp, sensor_frame, min_sensor_dist)
AssumeFrameSensorFrame(frame_id, sensor_frame, min_sensor_dist) ==
  LET af == assumeFrame(bodies_, frame_id)
  IN  /\ Idle
      /\ bodies_' = af.bodies
      /\ bspheres_' = af.bspheres
      /\ bspheresRadius2_' = SquaredRadii(af.bspheres)
      /\ sensor_pos_' = SensorOrigin(frame_id, sensor_frame)
      /\ min_sensor_dist_' = min_sensor_dist
      /\ UNCHANGED <<configured, generation>>
      /\ call' = [NoCall EXCEPT !.op = "assumeFrameSensorFrame", !.frame_id = frame_id,
                    !.sensor_frame = sensor_frame, !.min_sensor_dist = min_sensor_dist,
                    !.log = af.log \o SensorLog(frame_id, sensor_frame)]

\* --------------------------------------------------------- classification
\* for (j = 0 ; out == OUTSIDE && j < bs ; ++j)
\*   if (bodies_[j].<which>->containsPoint(pt)) out = INSIDE;
RECURSIVE ContainsLoop(_, _, _, _, _)
ContainsLoop(bodies, which, pt, j, out) ==
  IF ~(out = OUTSIDE /\ j <= Len(bodies)) THEN out
  ELSE ContainsLoop(bodies, which, pt, j + 1,
         IF containsPoint(IF which = "unscaledBody" THEN bodies[j].unscaledBody
                          ELSE bodies[j].body, pt)
           THEN INSIDE ELSE out)

\* dir /= lng: the unit vector, NaN when lng is 0
Normalized(dir, lng) == IF lng = 0 THEN NaN ELSE Vec(dir \div lng)

\* dir.dot(sensor_pos_ - tmp_tf_vec) >= 0.0 (false when an operand is NaN)
Occludes(dir, sensor_pos, tmp_tf_vec) ==
  /\ ~dir.nan
  /\ ~tmp_tf_vec.nan
  /\ dir.x * (sensor_pos - tmp_tf_vec.x) >= 0

\* ShadowLoop with the callback invoked on every hit, before the occlusion test
RECURSIVE ShadowLoop_CallbackOnEveryHit(_, _, _, _, _, _, _, _, _)
ShadowLoop_CallbackOnEveryHit(bodies, i, pt, dir, dir_eigen, sensor_pos, callback, j, st) ==
  IF ~(st.out = OUTSIDE /\ j <= Len(bodies)) THEN st
  ELSE LET r == intersectsRay(bodies[j].body, pt, dir_eigen, st.intersections)
           rays == Append(st.rays, [i |-> i, j |-> j, dir |-> dir_eigen])
           shadows == IF r.hit /\ callback
                        THEN Append(st.shadows, [i |-> i, j |-> j, h |-> r.intersections[1]])
                        ELSE st.shadows
       IN  ShadowLoop_CallbackOnEveryHit(bodies, i, pt, dir, dir_eigen, sensor_pos,
             callback, j + 1,
             [out |-> IF r.hit /\ Occludes(dir, sensor_pos, r.intersections[1])
                        THEN SHADOW ELSE st.out,
              intersections |-> r.intersections, rays |-> rays, shadows |-> shadows])

\* The shadow loop of maskAuxIntersection and getMaskIntersection, from body
\* j on.  `intersections` is declared before the loop and never cleared, and
\* the point tested is intersections[0].  st holds out and the calls made.
RECURSIVE ShadowLoop(_, _, _, _, _, _, _, _, _)
ShadowLoop(bodies, i, pt, dir, dir_eigen, sensor_pos, callback, j, st) ==
  IF ~(st.out = OUTSIDE /\ j <= Len(bodies)) THEN st
  ELSE LET r == intersectsRay(bodies[j].body, pt, dir_eigen, st.intersections)
           rays == Append(st.rays, [i |-> i, j |-> j, dir |-> dir_eigen])
       IN  IF r.hit /\ Occludes(dir, sensor_pos, r.intersections[1])
             THEN ShadowLoop(bodies, i, pt, dir, dir_eigen, sensor_pos, callback, j + 1,
                    [out |-> SHADOW, intersections |-> r.intersections, rays |-> rays,
                     shadows |-> IF callback
                                   THEN Append(st.shadows,
                                          [i |-> i, j |-> j, h |-> r.intersections[1]])
                                   ELSE st.shadows])
             ELSE ShadowLoop(bodies, i, pt, dir, dir_eigen, sensor_pos, callback, j + 1,
                    [st EXCEPT !.intersections = r.intersections, !.rays = rays])

NoCalls(out) == [out |-> out, intersections |-> <<>>, rays |-> <<>>, shadows |-> <<>>]

\* the body of maskAuxContainment's loop for one point
AuxContainmentPoint(bodies, bound, pt) ==
  IF InBound(bound, pt) THEN ContainsLoop(bodies, "body", pt, 1, OUTSIDE) ELSE OUTSIDE

\* AuxIntersectionPoint with the min-standoff test made only for points
\* inside the merged sphere
AuxIntersectionPoint_StandoffInsideSphere(bodies, bound, sensor_pos, min_sensor_dist, callback, i, pt) ==
  LET unscaled == IF InBound(bound, pt)
                    THEN ContainsLoop(bodies, "unscaledBody", pt, 1, OUTSIDE)
                    ELSE OUTSIDE
      dir == sensor_pos - pt
      lng == Abs(dir)
  IN  IF unscaled # OUTSIDE THEN NoCalls(unscaled)
      ELSE IF InBound(bound, pt) /\ lng < min_sensor_dist THEN NoCalls(INSIDE)
      ELSE LET sh == ShadowLoop(bodies, i, pt, Normalized(dir, lng), dir,
                                sensor_pos, callback, 1, NoCalls(OUTSIDE))
           IN  IF sh.out = OUTSIDE /\ InBound(bound, pt)
                 THEN [sh EXCEPT !.out = ContainsLoop(bodies, "body", pt, 1, OUTSIDE)]
                 ELSE sh

\* AuxIntersectionPoint without the containment test of the scaled bodies
\* that follows the shadow loop
AuxIntersectionPoint_NoScaledContainment(bodies, bound, sensor_pos, min_sensor_dist, callback, i, pt) ==
  LET unscaled == IF InBound(bound, pt)
                    THEN ContainsLoop(bodies, "unscaledBody", pt, 1, OUTSIDE)
                    ELSE OUTSIDE
      dir == sensor_pos - pt
      lng == Abs(dir)
  IN  IF unscaled # OUTSIDE THEN NoCalls(unscaled)
      ELSE IF lng < min_sensor_dist THEN NoCalls(INSIDE)
      ELSE ShadowLoop(bodies, i, pt, Normalized(dir, lng), dir,
                      sensor_pos, callback, 1, NoCalls(OUTSIDE))

\* the body of maskAuxIntersection's loop for point i
AuxIntersectionPoint(bodies, bound, sensor_pos, min_sensor_dist, callback, i, pt) ==
  LET unscaled == IF InBound(bound, pt)
                    THEN ContainsLoop(bodies, "unscaledBody", pt, 1, OUTSIDE)
                    ELSE OUTSIDE
      dir == sensor_pos - pt
      dir_eigen == sensor_pos - pt
      lng == Abs(dir)
  IN  IF unscaled # OUTSIDE THEN NoCalls(unscaled)
      ELSE IF lng < min_sensor_dist THEN NoCalls(INSIDE)
      ELSE LET sh == ShadowLoop(bodies, i, pt, Normalized(dir, lng), dir_eigen,
                                sensor_pos, callback, 1, NoCalls(OUTSIDE))
           IN  IF sh.out = OUTSIDE /\ InBound(bound, pt)
                 THEN [sh EXCEPT !.out = ContainsLoop(bodies, "body", pt, 1, OUTSIDE)]
                 ELSE sh

\* int SelfMask::getMaskContainment(const tf::Vector3 &pt) const
getMaskContainment(bodies, pt) == ContainsLoop(bodies, "body", pt, 1, OUTSIDE)

\* int SelfMask::getMaskIntersection(const tf::Vector3 &pt, callback) const
getMaskIntersection(bodies, sensor_pos, min_sensor_dist, callback, pt) ==
  LET unscaled == ContainsLoop(bodies, "unscaledBody", pt, 1, OUTSIDE)
      dir == sensor_pos - pt
      dir_eigen == dir
      lng == Abs(dir)
  IN  IF unscaled # OUTSIDE THEN NoCalls(unscaled)
      ELSE IF lng < min_sensor_dist THEN NoCalls(INSIDE)
      ELSE LET sh == ShadowLoop(bodies, 1, pt, Normalized(dir, lng), dir_eigen,
                                sensor_pos, callback, 1, NoCalls(OUTSIDE))
           IN  [sh EXCEPT !.out = ContainsLoop(bodies, "body", pt, 1, sh.out)]

\* maskAuxContainment reading the poses and spheres the object had when the
\* call began, before the call's frame update
maskAuxContainment_BeforeFrameUpdate(bodies, bspheres, pts) ==
  LET bound == mergeBoundingSpheres(bspheres_)
  IN  [mask |-> [i \in 1..Len(pts) |-> AuxContainmentPoint(bodies_, bound, pts[i])],
       shadows |-> <<>>, rays |-> <<>>]

\* void SelfMask::maskAuxContainment(data_in, mask)
maskAuxContainment(bodies, bspheres, pts) ==
  LET bound == mergeBoundingSpheres(bspheres)
  IN  [mask |-> [i \in 1..Len(pts) |-> AuxContainmentPoint(bodies, bound, pts[i])],
       shadows |-> <<>>, rays |-> <<>>]

\* void SelfMask::maskAuxIntersection(data_in, mask, callback)
maskAuxIntersection(bodies, bspheres, sensor_pos, min_sensor_dist, callback, pts) ==
  LET bound == mergeBoundingSpheres(bspheres)
      res == [i \in 1..Len(pts) |->
                AuxIntersectionPoint(bodies, bound, sensor_pos, min_sensor_dist,
                                     callback, i, pts[i])]
  IN  [mask |-> [i \in 1..Len(pts) |-> res[i].out],
       shadows |-> Flatten([i \in 1..Len(pts) |-> res[i].shadows]),
       rays |-> Flatten([i \in 1..Len(pts) |-> res[i].rays])]

\* std::fill(mask.begin(), mask.end(), (int)OUTSIDE)
AllOutside(pts) ==
  [mask |-> [i \in 1..Len(pts) |-> OUTSIDE], shadows |-> <<>>, rays |-> <<>>]

\* void SelfMask::maskContainment(data_in, mask)
MaskContainment(frame_id, pts) ==
  /\ Idle
  /\ IF bodies_ = <<>>
       THEN /\ call' = [NoCall EXCEPT !.op = "maskContainment", !.frame_id = frame_id,
                          !.pts = pts, !.mask = AllOutside(pts).mask]
            /\ UNCHANGED <<bodies_, bspheres_, bspheresRadius2_, sensor_pos_, min_sensor_dist_, configured, generation>>
       ELSE LET af == assumeFrame(bodies_, frame_id)
                m == maskAuxContainment(af.bodies, af.bspheres, pts)
            IN  /\ bodies_' = af.bodies
                /\ bspheres_' = af.bspheres
                /\ bspheresRadius2_' = SquaredRadii(af.bspheres)
                /\ UNCHANGED <<sensor_pos_, min_sensor_dist_, configured, generation>>
                /\ call' = [NoCall EXCEPT !.op = "maskContainment", !.frame_id = frame_id,
                              !.pts = pts, !.mask = m.mask, !.log = af.log]

\* MaskIntersectionFrame with maskAuxIntersection run whatever the sensor frame
MaskIntersectionFrame_AlwaysIntersection(frame_id, pts, sensor_frame, min_sensor_dist, callback) ==
  /\ Idle
  /\ IF bodies_ = <<>>
       THEN /\ call' = [NoCall EXCEPT !.op = "maskIntersectionFrame", !.frame_id = frame_id,
                          !.sensor_frame = sensor_frame, !.pts = pts, !.callback = callback,
                          !.min_sensor_dist = min_sensor_dist,
                          !.mask = AllOutside(pts).mask]
            /\ UNCHANGED <<bodies_, bspheres_, bspheresRadius2_, sensor_pos_, min_sensor_dist_, configured, generation>>
       ELSE LET af == assumeFrame(bodies_, frame_id)
                pos == SensorOrigin(frame_id, sensor_frame)
                m == maskAuxIntersection(af.bodies, af.bspheres, pos, min_sensor_dist,
                                         callback, pts)
            IN  /\ bodies_' = af.bodies
                /\ bspheres_' = af.bspheres
                /\ bspheresRadius2_' = SquaredRadii(af.bspheres)
                /\ sensor_pos_' = pos
                /\ min_sensor_dist_' = min_sensor_dist
                /\ UNCHANGED <<configured, generation>>
                /\ call' = [NoCall EXCEPT !.op = "maskIntersectionFrame", !.frame_id = frame_id,
                              !.sensor_frame = sensor_frame, !.pts = pts, !.callback = callback,
                              !.min_sensor_dist = min_sensor_dist,
                              !.mask = m.mask, !.shadows = m.shadows, !.rays = m.rays,
                              !.log = af.log \o SensorLog(frame_id, sensor_frame)]

\* void SelfMask::maskIntersection(data_in, sensor_frame, min_sensor_dist, mask, callback)
MaskIntersectionFrame(frame_id, pts, sensor_frame, min_sensor_dist, callback) ==
  /\ Idle
  /\ IF bodies_ = <<>>
       THEN /\ call' = [NoCall EXCEPT !.op = "maskIntersectionFrame", !.frame_id = frame_id,
                          !.sensor_frame = sensor_frame, !.pts = pts, !.callback = callback,
                          !.min_sensor_dist = min_sensor_dist,
                          !.mask = AllOutside(pts).mask]
            /\ UNCHANGED <<bodies_, bspheres_, bspheresRadius2_, sensor_pos_, min_sensor_dist_, configured, generation>>
       ELSE LET af == assumeFrame(bodies_, frame_id)
                pos == SensorOrigin(frame_id, sensor_frame)
                m == IF sensor_frame = ""
                       THEN maskAuxContainment(af.bodies, af.bspheres, pts)
                       ELSE maskAuxIntersection(af.bodies, af.bspheres, pos, min_sensor_dist,
                                                callback, pts)
            IN  /\ bodies_' = af.bodies
                /\ bspheres_' = af.bspheres
                /\ bspheresRadius2_' = SquaredRadii(af.bspheres)
                /\ sensor_pos_' = pos
                /\ min_sensor_dist_' = min_sensor_dist
                /\ UNCHANGED <<configured, generation>>
                /\ call' = [NoCall EXCEPT !.op = "maskIntersectionFrame", !.frame_id = frame_id,
                              !.sensor_frame = sensor_frame, !.pts = pts, !.callback = callback,
                              !.min_sensor_dist = min_sensor_dist,
                              !.mask = m.mask, !.shadows = m.shadows, !.rays = m.rays,
                              !.log = af.log \o SensorLog(frame_id, sensor_frame)]

\* void SelfMask::maskIntersection(data_in, sensor_pos, min_sensor_dist, mask, callback)
MaskIntersectionPos(frame_id, pts, sensor_pos, min_sensor_dist, callback) ==
  /\ Idle
  /\ IF bodies_ = <<>>
       THEN /\ call' = [NoCall EXCEPT !.op = "maskIntersectionPos", !.frame_id = frame_id,
                          !.pts = pts, !.callback = callback,
                          !.min_sensor_dist = min_sensor_dist,
                          !.mask = AllOutside(pts).mask]
            /\ UNCHANGED <<bodies_, bspheres_, bspheresRadius2_, sensor_pos_, min_sensor_dist_, configured, generation>>
       ELSE LET af == assumeFrame(bodies_, frame_id)
                m == maskAuxIntersection(af.bodies, af.bspheres, sensor_pos, min_sensor_dist,
                                         callback, pts)
            IN  /\ bodies_' = af.bodies
                /\ bspheres_' = af.bspheres
                /\ bspheresRadius2_' = SquaredRadii(af.bspheres)
                /\ sensor_pos_' = sensor_pos
                /\ min_sensor_dist_' = min_sensor_dist
                /\ UNCHANGED <<configured, generation>>
                /\ call' = [NoCall EXCEPT !.op = "maskIntersectionPos", !.frame_id = frame_id,
                              !.pts = pts, !.callback = callback,
                              !.min_sensor_dist = min_sensor_dist,
                              !.mask = m.mask, !.shadows = m.shadows, !.rays = m.rays,
                              !.log = af.log]

\* int SelfMask::getMaskContainment(double x, double y, double z) const
GetMaskContainment(pt) ==
  /\ Idle
  /\ call' = [NoCall EXCEPT !.op = "getMaskContainment", !.pts = <<pt>>,
                !.mask = <<getMaskContainment(bodies_, pt)>>]
  /\ UNCHANGED <<bodies_, bspheres_, bspheresRadius2_, sensor_pos_, min_sensor_dist_, configured, generation>>

\* int SelfMask::getMaskIntersection(double x, double y, double z, callback) const
GetMaskIntersection(pt, callback) ==
  LET r == getMaskIntersection(bodies_, sensor_pos_, min_sensor_dist_, callback, pt)
  IN  /\ Idle
      /\ call' = [NoCall EXCEPT !.op = "getMaskIntersection", !.pts = <<pt>>,
                    !.callback = callback, !.mask = <<r.out>>,
                    !.shadows = r.shadows, !.rays = r.rays]
      /\ UNCHANGED <<bodies_, bspheres_, bspheresRadius2_, sensor_pos_, min_sensor_dist_, configured, generation>>

\* ------------------------------------------------------- the state machine
\* The object after SelfMask(tf, links), whose body is configure(links).
\* configure does not assign min_sensor_dist_; it is taken as 0 here, and any
\* other value is left behind by an assumeFrame before a later configure.
Init ==
  \E links \in LinkLists, param \in ParamStates :
    \E c \in configure(links, param, <<>>, 1, <<>>, <<>>) :
      /\ bodies_ = c.bodies
      /\ bspheres_ = c.bspheres
      /\ bspheresRadius2_ = c.bspheresRadius2
      /\ sensor_pos_ = 0
      /\ min_sensor_dist_ = 0
      /\ configured = c.ret
      /\ generation = 1
      /\ call = NoCall

Next ==
  \/ \E links \in LinkLists, param \in ParamStates : Configure(links, param)
  \/ GetLinkNames
  \/ \E f \in Frames : AssumeFrame(f)
  \/ \E f \in Frames, p \in Coords, d \in Standoffs : AssumeFrameSensorPos(f, p, d)
  \/ \E f \in Frames, sf \in SensorFrames, d \in Standoffs : AssumeFrameSensorFrame(f, sf, d)
  \/ \E f \in Frames, pts \in Clouds : MaskContainment(f, pts)
  \/ \E f \in Frames, pts \in Clouds, sf \in SensorFrames, d \in Standoffs, cb \in BOOLEAN :
       MaskIntersectionFrame(f, pts, sf, d, cb)
  \/ \E f \in Frames, pts \in Clouds, p \in Coords, d \in Standoffs, cb \in BOOLEAN :
       MaskIntersectionPos(f, pts, p, d, cb)
  \/ \E pt \in Coords : GetMaskContainment(pt)
  \/ \E pt \in Coords, cb \in BOOLEAN : GetMaskIntersection(pt, cb)
  \/ Return

Spec == Init /\ [][Next]_vars

\* ================================================================ claims
\* The formulas below read the state a call leaves behind: the poses, sensor
\* position and min-standoff the call worked with are in bodies_, sensor_pos_
\* and min_sensor_dist_, its points and labels in call.

\* the call classified with maskAuxIntersection or getMaskIntersection
IntersectionCall ==
  \/ call.op \in {"maskIntersectionPos", "getMaskIntersection"}
  \/ call.op = "maskIntersectionFrame" /\ call.sensor_frame # ""

\* the call classified a cloud with maskAuxIntersection
BatchIntersectionCall == IntersectionCall /\ call.op # "getMaskIntersection"

\* the call classified with maskAuxContainment
BatchContainmentCall ==
  \/ call.op = "maskContainment"
  \/ call.op = "maskIntersectionFrame" /\ call.sensor_frame = ""

ClassificationCall ==
  call.op \in {"maskContainment", "maskIntersectionFrame", "maskIntersectionPos",
               "getMaskContainment", "getMaskIntersection"}

\* the call ran assumeFrame over the bodies
FrameCall ==
  \/ call.op \in {"assumeFrame", "assumeFrameSensorPos", "assumeFrameSensorFrame"}
  \/ /\ call.op \in {"maskContainment", "maskIntersectionFrame", "maskIntersectionPos"}
     /\ bodies_ # <<>>

PointIds == 1..Len(call.pts)
InUnscaledBody(p) == \E j \in 1..Len(bodies_) : containsPoint(bodies_[j].unscaledBody, p)
InScaledBody(p) == \E j \in 1..Len(bodies_) : containsPoint(bodies_[j].body, p)
TooClose(p) == Abs(sensor_pos_ - p) < min_sensor_dist_
ShadowsOf(i) == {k \in 1..Len(call.shadows) : call.shadows[k].i = i}
RaysOf(i) == {k \in 1..Len(call.rays) : call.rays[k].i = i}

\* the ray test of body j alone, from p toward the sensor
RayTest(j, p) == intersectsRay(bodies_[j].body, p, sensor_pos_ - p, <<>>)

\* body j's own hit lies between p and the sensor: direction . (sensor - h) >= 0
\* for the unit direction from p to the sensor
QualifyingHit(j, p) ==
  /\ p # sensor_pos_
  /\ RayTest(j, p).hit
  /\ ~RayTest(j, p).intersections[1].nan
  /\ Sign(sensor_pos_ - p) * (sensor_pos_ - RayTest(j, p).intersections[1].x) >= 0

\* squared distance to the merged sphere's center against its squared radius
MergedSphere == mergeBoundingSpheres(bspheres_)
BeyondMerged(p) ==
  (2 * p - MergedSphere.center2) * (2 * p - MergedSphere.center2)
    > MergedSphere.radius2 * MergedSphere.radius2
OnMerged(p) ==
  (2 * p - MergedSphere.center2) * (2 * p - MergedSphere.center2)
    = MergedSphere.radius2 * MergedSphere.radius2

\* C1: in classifyIntersection (batch and single point) a point contained in
\* the unscaled body of some monitored link is labelled Inside, and the shadow
\* observer is not invoked for it.
C1_UnscaledPointIsInside ==
  IntersectionCall =>
    \A i \in PointIds :
      InUnscaledBody(call.pts[i]) => call.mask[i] = INSIDE /\ ShadowsOf(i) = {}

\* C2: in classifyIntersection a point in no unscaled body and at distance
\* >= minStandoff from the sensor is labelled Shadow if and only if some
\* monitored body's scaled-body ray test reports a hit h with
\* direction . (sensorPosition - h) >= 0, whatever earlier bodies reported.
C2_ShadowIffSomeBodyOccludes ==
  IntersectionCall =>
    \A i \in PointIds :
      (~InUnscaledBody(call.pts[i]) /\ ~TooClose(call.pts[i])) =>
        (call.mask[i] = SHADOW <=> \E j \in 1..Len(bodies_) : QualifyingHit(j, call.pts[i]))

\* C3: in classifyIntersection the supplied observer is invoked exactly once
\* for each point labelled Shadow and never for another point; its argument is
\* the hit computed on the body being tested for that point, that hit passes
\* the occlusion test, and no body after it is tested for the point.
C3_ObserverOncePerShadowWithItsHit ==
  (IntersectionCall /\ call.callback) =>
    /\ \A i \in PointIds :
         Cardinality(ShadowsOf(i)) = IF call.mask[i] = SHADOW THEN 1 ELSE 0
    /\ \A k \in 1..Len(call.shadows) :
         LET e == call.shadows[k]
         IN  /\ e.i \in PointIds
             /\ e.j \in 1..Len(bodies_)
             /\ QualifyingHit(e.j, call.pts[e.i])
             /\ e.h = RayTest(e.j, call.pts[e.i]).intersections[1]
             /\ \A r \in RaysOf(e.i) : call.rays[r].j <= e.j

\* a Shadow point whose occluding body is not the first of the BodySet
C3_Witness ==
  /\ BatchIntersectionCall
  /\ call.callback
  /\ \E k \in 1..Len(call.shadows) :
       /\ call.shadows[k].j = 2
       /\ call.mask[call.shadows[k].i] = SHADOW

\* C4: in classifyIntersection with a non-empty BodySet, a point in no
\* unscaled body and strictly closer to the sensor than minStandoff is
\* labelled Inside, inside or outside the merged sphere; no ray test is run
\* and the observer is not invoked for it.
C4_StandoffPointIsInside ==
  (IntersectionCall /\ bodies_ # <<>>) =>
    \A i \in PointIds :
      (~InUnscaledBody(call.pts[i]) /\ TooClose(call.pts[i])) =>
        /\ call.mask[i] = INSIDE
        /\ RaysOf(i) = {}
        /\ ShadowsOf(i) = {}

\* a batch point beyond the merged sphere, in no body, labelled Inside by the
\* standoff rule
C4_Witness ==
  /\ BatchIntersectionCall
  /\ bodies_ # <<>>
  /\ \E i \in PointIds :
       /\ BeyondMerged(call.pts[i])
       /\ ~InScaledBody(call.pts[i])
       /\ ~InUnscaledBody(call.pts[i])
       /\ TooClose(call.pts[i])
       /\ call.mask[i] = INSIDE

\* C5: in classifyIntersection a point in no unscaled body, at distance
\* >= minStandoff and not labelled Shadow is labelled Inside if some scaled
\* body contains it and Outside otherwise.
C5_ScaledContainmentDecidesTheRest ==
  IntersectionCall =>
    \A i \in PointIds :
      (~InUnscaledBody(call.pts[i]) /\ ~TooClose(call.pts[i]) /\ call.mask[i] # SHADOW) =>
        call.mask[i] = IF InScaledBody(call.pts[i]) THEN INSIDE ELSE OUTSIDE

\* C6: in batch classifyContainment a point is rejected as Outside only when
\* its squared distance to the merged sphere's center exceeds the squared
\* radius; every other point is Inside iff some scaled body contains it; the
\* label Shadow is never produced.
C6_CheapRejectOnlyBeyondSphere ==
  (BatchContainmentCall /\ bodies_ # <<>>) =>
    \A i \in PointIds :
      call.mask[i] = IF BeyondMerged(call.pts[i]) THEN OUTSIDE
                     ELSE IF InScaledBody(call.pts[i]) THEN INSIDE ELSE OUTSIDE

\* C7: a configure call with a usable model returns success, and while the
\* BodySet it left is empty every classification (batch or single point)
\* labels every point Outside, for every sensor position and min-standoff.
C7_EmptyBodySetLabelsOutside ==
  /\ (call.op = "configure" /\ call.param = "ok") => call.ret
  /\ (configured /\ bodies_ = <<>> /\ ClassificationCall) =>
       \A i \in PointIds : call.mask[i] = OUTSIDE

\* C8: in every state the BodySet is ordered by non-increasing volume, and
\* getLinkNames reports the link names in exactly that order.
C8_BodiesSortedByVolume ==
  /\ \A i \in 1..(Len(bodies_) - 1) : bodies_[i].volume >= bodies_[i + 1].volume
  /\ call.op = "getLinkNames" =>
       /\ Len(call.frames) = Len(bodies_)
       /\ \A i \in 1..Len(bodies_) : call.frames[i] = bodies_[i].name

\* configure was handed a smaller body before a larger one and put the larger first
C8_Witness ==
  /\ call.op = "configure"
  /\ call.links = <<[name |-> "arm", scale |-> 1, padding |-> 0],
                    [name |-> "base", scale |-> 1, padding |-> 1]>>
  /\ Len(bodies_) = 2
  /\ bodies_[1].name = "base"
  /\ bodies_[1].volume > bodies_[2].volume

\* what the transform provider answers for body i in the call's frame
Resolved(i) == lookupTransform(call.frame_id, bodies_[i].name)
LookupFailed(i) == Resolved(i) = <<>>
SpheresRefreshed ==
  /\ Len(bspheres_) = Len(bodies_)
  /\ Len(bspheresRadius2_) = Len(bodies_)
  /\ \A i \in 1..Len(bodies_) :
       /\ bspheres_[i] = [center |-> bodies_[i].body.pose, radius |-> bodies_[i].body.half]
       /\ bspheresRadius2_[i] = bodies_[i].body.half * bodies_[i].body.half

Buildable(info) ==
  /\ info.name \in DOMAIN UrdfLinks
  /\ UrdfLinks[info.name].collision
  /\ \/ UrdfLinks[info.name].type \in {"SPHERE", "BOX", "CYLINDER"}
     \/ UrdfLinks[info.name].type = "MESH" /\ UrdfLinks[info.name].filename # ""

\* C10: configure returns false only without a usable robot model; with one
\* it returns true for every list, and the monitored BodyLinks are, one for
\* one, the entries of the list that can be built (the others are skipped).
C10_ConfigureSkipsOnlyUnbuildable ==
  call.op = "configure" =>
    /\ call.ret = (call.param = "ok")
    /\ call.param = "ok" =>
         LET good == {i \in 1..Len(call.links) : Buildable(call.links[i])}
         IN  /\ Len(bodies_) = Cardinality(good)
             /\ \E f \in [1..Len(bodies_) -> good] :
                  /\ \A a, b \in 1..Len(bodies_) : f[a] = f[b] => a = b
                  /\ \A j \in 1..Len(bodies_) :
                       /\ bodies_[j].name = call.links[f[j]].name
                       /\ bodies_[j].body.half =
                            call.links[f[j]].scale * UrdfLinks[bodies_[j].name].half
                              + call.links[f[j]].padding
                       /\ bodies_[j].unscaledBody.half = UrdfLinks[bodies_[j].name].half

\* an unknown link came first in the list and the entry after it was built
C10_Witness ==
  /\ call.op = "configure"
  /\ call.ret
  /\ Len(call.links) = 2
  /\ call.links[1].name = "ghost"
  /\ Len(bodies_) = 1
  /\ bodies_[1].name = call.links[2].name

\* C11: for a non-empty BodySet and the snapshot a batch call worked with
\* (poses, sensor position, min-standoff), every point gets from the batch
\* operation the label the single-point query returns for it:
\* getMaskContainment for classifyContainment, getMaskIntersection for
\* classifyIntersection, on or beyond the merged sphere included.
C11_SinglePointEqualsBatch ==
  /\ (BatchContainmentCall /\ bodies_ # <<>>) =>
       \A i \in PointIds : call.mask[i] = getMaskContainment(bodies_, call.pts[i])
  /\ (BatchIntersectionCall /\ bodies_ # <<>>) =>
       \A i \in PointIds :
         call.mask[i] = getMaskIntersection(bodies_, sensor_pos_, min_sensor_dist_,
                                            call.callback, call.pts[i]).out

\* body j was built from some entry of the list handed to the call
BuiltFromEntry(j) ==
  \E k \in 1..Len(call.links) :
    /\ bodies_[j].name = call.links[k].name
    /\ Buildable(call.links[k])
    /\ bodies_[j].body.half =
         call.links[k].scale * UrdfLinks[bodies_[j].name].half + call.links[k].padding

\* C12: across configure calls (successful or failing) serialized with the
\* other calls, the BodySet never mixes generations: every monitored BodyLink
\* was built by the latest configure call, from an entry of its list, and no
\* body of an earlier configuration remains (a failing configure leaves none).
C12_NoMixedGenerations ==
  /\ \A j \in 1..Len(bodies_) : bodies_[j].gen = generation
  /\ call.op = "configure" =>
       /\ \A j \in 1..Len(bodies_) : BuiltFromEntry(j)
       /\ ~call.ret => bodies_ = <<>>

\* a configure call that found bodies of the previous configuration and left
\* a BodySet of its own
C12_Witness ==
  /\ call.op = "configure"
  /\ generation > 1
  /\ call.freed > 0
  /\ bodies_ # <<>>
  /\ \A j \in 1..Len(bodies_) : bodies_[j].gen = generation

\* the messages of the call's log that name links
LinkDiagnostics == {k \in 1..Len(call.log) : call.log[k].names # <<>>}

\* C13: a configure call reports all the entries it could not resolve
\* (unknown link, no collision geometry, no shape, no body) in one aggregated
\* diagnostic that names each of them: it emits at most one per-link failure
\* diagnostic, however many entries fail.
C13_OneAggregatedDiagnostic ==
  (call.op = "configure" /\ call.param = "ok") =>
    LET failed == {i \in 1..Len(call.links) : ~Buildable(call.links[i])}
    IN  /\ Cardinality(LinkDiagnostics) <= 1
        /\ failed # {} =>
             \E k \in LinkDiagnostics :
               \A i \in failed :
                 \E n \in 1..Len(call.log[k].names) : call.log[k].names[n] = call.links[i].name

\* the places of the bodies built from link `name`
PlacesOf(name) == {j \in 1..Len(bodies_) : bodies_[j].name = name}

\* C14: the ordering produced by configure is stable: of two entries of the
\* list that both became BodyLinks of equal volume, the one earlier in the
\* list is earlier in the BodySet (entries are told apart by their names).
C14_SortIsStable ==
  (call.op = "configure" /\ call.ret) =>
    \A a, b \in 1..Len(call.links) :
      (/\ a < b
       /\ call.links[a].name # call.links[b].name
       /\ Buildable(call.links[a])
       /\ Buildable(call.links[b])) =>
        \A ja \in PlacesOf(call.links[a].name), jb \in PlacesOf(call.links[b].name) :
          bodies_[ja].volume = bodies_[jb].volume => ja < jb

BatchCall == BatchContainmentCall \/ BatchIntersectionCall

\* the pose this call's assumeFrame gives body j: the transform looked up in
\* the cloud's frame (the identity when the lookup throws) composed with the
\* static offset
FramePose(j) ==
  (IF LookupFailed(j) THEN 0 ELSE Resolved(j)[1]) + bodies_[j].constTransf

\* p is strictly inside the merged sphere of the bounding spheres
WithinMerged(p) == ~BeyondMerged(p) /\ ~OnMerged(p)

\* C15: within one batch classification call on a non-empty BodySet the frame
\* update completes before the first point is evaluated: both bodies of every
\* link have the pose of this call's frame, every cached sphere and squared
\* radius is recomputed from it, and every label is the one these poses and
\* spheres give, not the one of an earlier call's.
C15_FrameUpdateBeforePoints ==
  (BatchCall /\ bodies_ # <<>>) =>
    /\ \A j \in 1..Len(bodies_) :
         /\ bodies_[j].body.pose = FramePose(j)
         /\ bodies_[j].unscaledBody.pose = FramePose(j)
    /\ SpheresRefreshed
    /\ \A i \in PointIds :
         LET p == call.pts[i]
         IN  /\ (WithinMerged(p) /\ InScaledBody(p)) => call.mask[i] # OUTSIDE
             /\ BatchContainmentCall =>
                  (call.mask[i] = INSIDE => WithinMerged(p) /\ InScaledBody(p))
             /\ BatchIntersectionCall =>
                  /\ call.mask[i] = INSIDE =>
                       \/ TooClose(p)
                       \/ WithinMerged(p) /\ InScaledBody(p)
                  /\ call.mask[i] = SHADOW =>
                       \E j \in 1..Len(bodies_) : QualifyingHit(j, p)

\* a batch call labelled Inside a point that no body contains at the pose
\* configure left it with: the label comes from the pose of this call's frame
C15_Witness ==
  /\ BatchCall
  /\ \E i \in PointIds :
       /\ call.mask[i] = INSIDE
       /\ ~TooClose(call.pts[i])
       /\ InScaledBody(call.pts[i])
       /\ \A j \in 1..Len(bodies_) :
            ~containsPoint([bodies_[j].body EXCEPT !.pose = 0], call.pts[i])

\* the call ran the sensor-frame assumeFrame
SensorFrameCall ==
  \/ call.op = "assumeFrameSensorFrame"
  \/ call.op = "maskIntersectionFrame" /\ bodies_ # <<>>

\* the transform provider throws on the lookup of the call's sensor frame
SensorLookupFailed ==
  \/ call.sensor_frame \notin DOMAIN TfTree[call.frame_id]
  \/ ~TfTree[call.frame_id][call.sensor_frame].found

\* C16: after the sensor-frame assumeFrame the stored sensor position is the
\* origin of the looked-up sensor transform when the lookup succeeds and the
\* origin 0 when it fails, whatever the bounded wait before it did; the stored
\* min-standoff is the value passed in and the per-link pose update is done.
C16_SensorFrameFallsBackToOrigin ==
  SensorFrameCall =>
    /\ sensor_pos_ = IF SensorLookupFailed THEN 0
                     ELSE TfTree[call.frame_id][call.sensor_frame].x
    /\ min_sensor_dist_ = call.min_sensor_dist
    /\ SpheresRefreshed
    /\ \A j \in 1..Len(bodies_) :
         /\ bodies_[j].body.pose = FramePose(j)
         /\ bodies_[j].unscaledBody.pose = FramePose(j)

\* the wait for the sensor frame timed out, the lookup after it succeeded and
\* its position, not the origin, is stored
C16_Witness ==
  /\ call.op = "assumeFrameSensorFrame"
  /\ bodies_ # <<>>
  /\ ~SensorLookupFailed
  /\ ~TfTree[call.frame_id][call.sensor_frame].wait
  /\ sensor_pos_ = TfTree[call.frame_id][call.sensor_frame].x
  /\ sensor_pos_ # 0
  /\ min_sensor_dist_ = MaxStandoff

\* C17: in classifyIntersection a point that coincides with the sensor
\* position while the min-standoff is 0 (a zero-length ray) is labelled Inside
\* if an unscaled or a scaled body contains it and Outside otherwise; it is
\* never labelled Shadow and the observer is not invoked for it.
C17_ZeroLengthRayIsLabelled ==
  IntersectionCall =>
    \A i \in PointIds :
      (call.pts[i] = sensor_pos_ /\ min_sensor_dist_ = 0) =>
        /\ call.mask[i] = IF InUnscaledBody(call.pts[i]) \/ InScaledBody(call.pts[i])
                            THEN INSIDE ELSE OUTSIDE
        /\ ShadowsOf(i) = {}

\* C18: in classifyIntersection, batch and single point, the direction handed
\* to every scaled body's ray test is the unit vector from the point to the
\* sensor position, the one used in the occlusion test.
C18_RayDirectionIsNormalized ==
  IntersectionCall =>
    \A k \in 1..Len(call.rays) :
      LET p == call.pts[call.rays[k].i]
      IN  p # sensor_pos_ => call.rays[k].dir = Sign(sensor_pos_ - p)

\* every unscaled body's region lies in its scaled body's region
UnscaledWithinScaled ==
  \A j \in 1..Len(bodies_) :
    /\ bodies_[j].unscaledBody.pose - bodies_[j].unscaledBody.half
         >= bodies_[j].body.pose - bodies_[j].body.half
    /\ bodies_[j].unscaledBody.pose + bodies_[j].unscaledBody.half
         <= bodies_[j].body.pose + bodies_[j].body.half

\* the label classifyContainment gives p on the snapshot the call worked with
ContainmentLabel(p) ==
  IF call.op = "getMaskIntersection"
    THEN getMaskContainment(bodies_, p)
    ELSE AuxContainmentPoint(bodies_, MergedSphere, p)

\* C19: on a snapshot in which every unscaled body lies in its scaled body,
\* classifyIntersection never labels Outside a point that classifyContainment
\* labels Inside, whatever the sensor position and the min-standoff: Inside by
\* containment gives Inside or Shadow by intersection, and Outside by
\* intersection gives Outside by containment (batch against batch, single
\* point against single point).
C19_IntersectionCoversContainment ==
  (IntersectionCall /\ bodies_ # <<>> /\ UnscaledWithinScaled) =>
    \A i \in PointIds :
      /\ ContainmentLabel(call.pts[i]) = INSIDE => call.mask[i] \in {INSIDE, SHADOW}
      /\ call.mask[i] = OUTSIDE => ContainmentLabel(call.pts[i]) = OUTSIDE

\* a batch point in the padding of a scaled body, in no unscaled body, not
\* too close and not shadowed, that both classifications label Inside
C19_Witness ==
  /\ BatchIntersectionCall
  /\ UnscaledWithinScaled
  /\ \E i \in PointIds :
       /\ ContainmentLabel(call.pts[i]) = INSIDE
       /\ ~InUnscaledBody(call.pts[i])
       /\ ~TooClose(call.pts[i])
       /\ RaysOf(i) # {}
       /\ call.mask[i] = INSIDE

\* C20: the sensor-frame maskIntersection called with an empty sensor frame
\* id on a non-empty BodySet classifies by containment only: its mask is the
\* one maskContainment gives for the same points and poses, no point is
\* labelled Shadow, the standoff rule is not applied and neither a ray test
\* nor the shadow observer is run.
C20_EmptySensorFrameIsContainment ==
  (call.op = "maskIntersectionFrame" /\ call.sensor_frame = "" /\ bodies_ # <<>>) =>
    /\ \A i \in PointIds :
         call.mask[i] = IF WithinMerged(call.pts[i]) /\ InScaledBody(call.pts[i])
                          THEN INSIDE ELSE OUTSIDE
    /\ call.shadows = <<>>
    /\ call.rays = <<>>

\* with an empty sensor frame id and an observer supplied, a point in no body
\* and closer to the stored sensor position than the min-standoff is labelled
\* Outside
C20_Witness ==
  /\ call.op = "maskIntersectionFrame"
  /\ call.sensor_frame = ""
  /\ call.callback
  /\ bodies_ # <<>>
  /\ \E i \in PointIds :
       /\ ~InScaledBody(call.pts[i])
       /\ TooClose(call.pts[i])
       /\ call.mask[i] = OUTSIDE

====
